---------------------------- MODULE Spec2Model ----------------------------
(***************************************************************************)
(* A model of slic::ArgParser<T>::parse (include/slic.hpp): the single     *)
(* left-to-right scan of argv against the declaration tuple T::Options.    *)
(*                                                                         *)
(* A std::string_view is a sequence of one-character strings, so that      *)
(* starts_with, find('='), substr and from_chars are computed character by *)
(* character.  C++ indices are kept 0-based: Argv(argv, i) is m_argv[i].   *)
(* Floating point fields are not modelled; the arithmetic types are the    *)
(* integer ones.                                                           *)
(***************************************************************************)
EXTENDS Integers, Sequences, FiniteSets, TLC

\* Largest number of tokens that follow the program name in a modelled argv.
MaxArgs == 3

---------------------------------------------------------------------------
(* std::string_view                                                        *)

\* std::string_view::npos
npos == -1

EmptyStr == << >>

\* arg.starts_with(c)
StartsWith(s, c) == Len(s) > 0 /\ s[1] = c

\* s.find(c): 0-based offset of the first c, or npos
Find(s, c) ==
    LET hits == {k \in 1..Len(s) : s[k] = c}
    IN  IF hits = {} THEN npos
        ELSE (CHOOSE k \in hits : \A j \in hits : k <= j) - 1

\* s.find_last_of(c): 0-based offset of the last c, or npos
FindLastOf(s, c) ==
    LET hits == {k \in 1..Len(s) : s[k] = c}
    IN  IF hits = {} THEN npos
        ELSE (CHOOSE k \in hits : \A j \in hits : k >= j) - 1

\* s.substr(pos, n) and s.substr(pos), pos a 0-based offset <= size
Substr(s, pos, n) == SubSeq(s, pos + 1, pos + n)
SubstrFrom(s, pos) == SubSeq(s, pos + 1, Len(s))

---------------------------------------------------------------------------
(* ValueParser<T>::parse                                                   *)

BoolTrueWords ==
    { <<"t","r","u","e">>, <<"1">>, <<"y","e","s">>, <<"o","n">>, <<"y">> }

BoolFalseWords ==
    { <<"f","a","l","s","e">>, <<"0">>, <<"n","o">>, <<"o","f","f">>, <<"n">> }

DigitChars == {"0","1","2","3","4","5","6","7","8","9"}

DigitValue(c) ==
    CASE c = "0" -> 0 [] c = "1" -> 1 [] c = "2" -> 2 [] c = "3" -> 3
      [] c = "4" -> 4 [] c = "5" -> 5 [] c = "6" -> 6 [] c = "7" -> 7
      [] c = "8" -> 8 [] c = "9" -> 9

\* std::numeric_limits<int>::max() and ::min() (32-bit int)
IntMax == 2147483647
IntMin == (-2147483647) - 1

\* Number of leading decimal digits of s from 0-based offset pos.
RECURSIVE DigitRun(_, _)
DigitRun(s, pos) ==
    IF pos < Len(s) /\ s[pos + 1] \in DigitChars
    THEN 1 + DigitRun(s, pos + 1)
    ELSE 0

\* Accumulates the digits s[pos .. pos+n-1] onto acc, away from zero in the
\* direction of sign; range is FALSE once the value leaves [IntMin, IntMax].
RECURSIVE Accumulate(_, _, _, _, _)
Accumulate(s, pos, n, neg, st) ==
    IF n = 0 \/ ~st.range THEN st
    ELSE LET d == DigitValue(s[pos + 1])
             fits == IF neg THEN st.acc >= (IntMin + d + 9) \div 10
                            ELSE st.acc <= (IntMax - d) \div 10
         IN  Accumulate(s, pos + 1, n - 1, neg,
                 IF fits
                 THEN [acc |-> IF neg THEN st.acc * 10 - d ELSE st.acc * 10 + d,
                       range |-> TRUE]
                 ELSE [acc |-> 0, range |-> FALSE])

\* std::from_chars(first, last, int&): "-"? digit+ in base 10, longest match.
\* ptr is the 0-based offset one past the consumed characters.
FromChars(input) ==
    LET neg  == StartsWith(input, "-")
        from == IF neg THEN 1 ELSE 0
        n    == DigitRun(input, from)
        st   == Accumulate(input, from, n, neg, [acc |-> 0, range |-> TRUE])
    IN  IF n = 0 THEN [ec |-> "invalid_argument", ptr |-> 0, value |-> 0]
        ELSE IF ~st.range
             THEN [ec |-> "result_out_of_range", ptr |-> from + n, value |-> 0]
             ELSE [ec |-> "ok", ptr |-> from + n, value |-> st.acc]

\* T value{} of the inner (unwrapped) type
ZeroOf(inner) ==
    CASE inner = "bool"   -> FALSE
      [] inner = "int"    -> 0
      [] inner = "string" -> EmptyStr

\* std::optional<Inner>: nullopt, or the value
Nullopt(inner) == [has |-> FALSE, val |-> ZeroOf(inner)]
Some(v) == [has |-> TRUE, val |-> v]

\* Faulty variant: an empty inline value is read as true.
ValueParser_bool_EmptyIsTrue(input) ==
    IF input \in BoolTrueWords \/ Len(input) = 0 THEN Some(TRUE)
    ELSE IF input \in BoolFalseWords THEN Some(FALSE)
    ELSE Nullopt("bool")

ValueParser_bool(input) ==
    IF input \in BoolTrueWords THEN Some(TRUE)
    ELSE IF input \in BoolFalseWords THEN Some(FALSE)
    ELSE Nullopt("bool")

\* Faulty variant: characters left after the number are ignored.
ValueParser_int_Prefix(input) ==
    LET r == FromChars(input)
    IN  IF r.ec = "ok" THEN Some(r.value)
        ELSE Nullopt("int")

ValueParser_int(input) ==
    LET r == FromChars(input)
    IN  IF r.ec = "ok" /\ r.ptr = Len(input) THEN Some(r.value)
        ELSE Nullopt("int")

ValueParser(inner, input) ==
    CASE inner = "bool"   -> ValueParser_bool(input)
      [] inner = "string" -> Some(input)
      [] inner = "int"    -> ValueParser_int(input)

---------------------------------------------------------------------------
(* Tokens and declarations                                                 *)

\* m_argv[i], i a 0-based index below m_argc
Argv(argv, idx) == argv[idx + 1]

Separator == <<"-","-">>

tok_v        == <<"-","v">>
tok_verbose  == <<"-","-","v","e","r","b","o","s","e">>
tok_c        == <<"-","c">>
tok_count    == <<"-","-","c","o","u","n","t">>

\* A field type: the unwrapped type and whether it is std::optional<...>.
Plain(inner)    == [inner |-> inner, optional |-> FALSE]
Optional(inner) == [inner |-> inner, optional |-> TRUE]

\* slic::Option{name, altName, &T::field}; altName is empty when not given
Option(name, altName, type, fld) ==
    [name |-> name, altName |-> altName, type |-> type, field |-> fld]

\* slic::Arg{name, &T::field}
Arg(name, type, fld) == [name |-> name, type |-> type, field |-> fld]

\* The options structs T the parser is instantiated with: the Option and Arg
\* entries of T::Options in tuple order, whether a VarArgs entry is present
\* (varargs is then its ArgSpan field), and T's default member values.
SimpleOptions ==
    [ opts |-> << Option(tok_v, tok_verbose, Plain("bool"), "verbose"),
                  Option(tok_c, tok_count, Plain("int"), "count") >>,
      args |-> << Arg(<<"n","a","m","e">>, Plain("string"), "name") >>,
      hasVarArgs |-> FALSE, varargs |-> "none",
      defaults |-> [verbose |-> FALSE, count |-> 0, name |-> EmptyStr] ]

MixedOptions ==
    [ opts |-> << Option(tok_v, tok_verbose, Optional("bool"), "debug"),
                  Option(tok_c, tok_count, Optional("int"), "level") >>,
      args |-> << Arg(<<"i","n">>, Plain("string"), "input"),
                  Arg(<<"o","u","t">>, Optional("string"), "output") >>,
      hasVarArgs |-> FALSE, varargs |-> "none",
      defaults |-> [debug |-> Nullopt("bool"), level |-> Nullopt("int"),
                    input |-> EmptyStr, output |-> Nullopt("string")] ]

VarArgsOptions ==
    [ opts |-> << Option(tok_c, EmptyStr, Plain("string"), "conf") >>,
      args |-> << Arg(<<"c","m","d">>, Plain("string"), "command") >>,
      hasVarArgs |-> TRUE, varargs |-> "args",
      defaults |-> [conf |-> EmptyStr, command |-> EmptyStr,
                    args |-> [data |-> -1, size |-> 0]] ]

\* Only a flag and a variadic slot: every positional token overflows.
FlagVarArgsOptions ==
    [ opts |-> << Option(tok_v, tok_verbose, Plain("bool"), "verbose") >>,
      args |-> << >>,
      hasVarArgs |-> TRUE, varargs |-> "args",
      defaults |-> [verbose |-> FALSE, args |-> [data |-> -1, size |-> 0]] ]

\* An optional integer slot declared before a required slot whose name is
\* the empty string, and a variadic slot.
EdgeOptions ==
    [ opts |-> << >>,
      args |-> << Arg(<<"n","u","m">>, Optional("int"), "num"),
                  Arg(EmptyStr, Plain("string"), "rest") >>,
      hasVarArgs |-> TRUE, varargs |-> "args",
      defaults |-> [num |-> Nullopt("int"), rest |-> EmptyStr,
                    args |-> [data |-> -1, size |-> 0]] ]

Declarations ==
    { SimpleOptions, MixedOptions, VarArgsOptions, FlagVarArgsOptions,
      EdgeOptions }

\* The tokens argv[1..] is drawn from.
Vocabulary ==
    { Separator,
      tok_v, tok_verbose, <<"-","v","=","n">>, <<"-","v","=","x">>,
      tok_c, <<"-","c","=","5">>,
      <<"5">>, <<"a">>,
      <<"-","5">>, <<"-">>, <<"-","-","v","e","r","b","=","y">> }

ProgramPath == <<"b","/","p">>

\* argv: the program path followed by at most n tokens of vocabulary V
ArgvOver(V, n) ==
    { <<ProgramPath>> \o tail : tail \in UNION { [1..k -> V] : k \in 0..n } }

---------------------------------------------------------------------------
(* ParseResult                                                             *)

Success == [error |-> "None", context |-> EmptyStr]
Failure(err, ctx) == [error |-> err, context |-> ctx]
IsOk(r) == r.error = "None"

---------------------------------------------------------------------------
(* ArgParser<T>: constructor and the private helpers of parse()            *)

\* The constructor's m_programName
\* Faulty variant: the name is cut after the first "/" instead of the last.
ProgramName_FirstSlash(argc, argv) ==
    IF argc > 0
    THEN LET name  == Argv(argv, 0)
             slash == Find(name, "/")
         IN  IF slash # npos THEN SubstrFrom(name, slash + 1) ELSE name
    ELSE EmptyStr

ProgramName(argc, argv) ==
    IF argc > 0
    THEN LET name  == Argv(argv, 0)
             slash == FindLastOf(name, "/")
         IN  IF slash # npos THEN SubstrFrom(name, slash + 1) ELSE name
    ELSE EmptyStr

\* Faulty variant: a name matches when the token is a prefix of it.
Matches_Prefix(opt, arg) ==
    \/ (Len(arg) <= Len(opt.name) /\ SubSeq(opt.name, 1, Len(arg)) = arg)
    \/ (Len(arg) <= Len(opt.altName) /\ SubSeq(opt.altName, 1, Len(arg)) = arg)

\* Option::matches
Matches(opt, arg) == arg = opt.name \/ arg = opt.altName

\* m_options.*field = value, for a field of type T or std::optional<T>
Assign(options, decl, value) ==
    [options EXCEPT ![decl.field] =
        IF decl.type.optional THEN Some(value) ELSE value]

\* optName and inlineValue of tryParseOption
OptName(arg) ==
    LET eqPos == Find(arg, "=")
    IN  IF eqPos # npos THEN Substr(arg, 0, eqPos) ELSE arg

\* Faulty variant: the inline value keeps the "=".
InlineValue_KeepsEq(arg) ==
    LET eqPos == Find(arg, "=")
    IN  IF eqPos # npos THEN Some(SubstrFrom(arg, eqPos))
        ELSE Nullopt("string")

InlineValue(arg) ==
    LET eqPos == Find(arg, "=")
    IN  IF eqPos # npos THEN Some(SubstrFrom(arg, eqPos + 1))
        ELSE Nullopt("string")

\* forEachOptionUntil with the matches test: the 1-based place in T.opts of
\* the first option matching optName, 0 when none matches
FirstMatch(T, optName) ==
    LET hits == {k \in 1..Len(T.opts) : Matches(T.opts[k], optName)}
    IN  IF hits = {} THEN 0 ELSE CHOOSE k \in hits : \A j \in hits : k <= j

\* Faulty variant: a bare flag flips the field instead of setting it.
ParseBoolOption_Toggle(opt, options, arg, index) ==
    LET inlineValue == InlineValue(arg)
        parsed == ValueParser("bool", inlineValue.val)
        old == options[opt.field]
        set == IF opt.type.optional THEN old.has /\ old.val ELSE old
    IN  IF inlineValue.has
        THEN IF ~parsed.has
             THEN [result |-> Failure("InvalidValue", arg),
                   options |-> options, index |-> index]
             ELSE [result |-> Success,
                   options |-> Assign(options, opt, parsed.val),
                   index |-> index]
        ELSE [result |-> Success,
              options |-> Assign(options, opt, ~set), index |-> index]

\* The boolean branch of tryParseOption's lambda
ParseBoolOption(opt, options, arg, index) ==
    LET inlineValue == InlineValue(arg)
        parsed == ValueParser("bool", inlineValue.val)
    IN  IF inlineValue.has
        THEN IF ~parsed.has
             THEN [result |-> Failure("InvalidValue", arg),
                   options |-> options, index |-> index]
             ELSE [result |-> Success,
                   options |-> Assign(options, opt, parsed.val),
                   index |-> index]
        ELSE [result |-> Success,
              options |-> Assign(options, opt, TRUE), index |-> index]

\* Faulty variant: a following token is required even with an inline value.
ParseValueOption_NextTokenFirst(opt, options, argc, argv, arg, index) ==
    LET inlineValue == InlineValue(arg)
    IN  IF ~(index + 1 < argc)
        THEN [result |-> Failure("MissingValue", OptName(arg)),
              options |-> options, index |-> index]
        ELSE LET next   == IF inlineValue.has THEN index ELSE index + 1
                 value  == IF inlineValue.has THEN inlineValue.val
                           ELSE Argv(argv, next)
                 parsed == ValueParser(opt.type.inner, value)
             IN  IF ~parsed.has
                 THEN [result |-> Failure("InvalidValue", arg),
                       options |-> options, index |-> next]
                 ELSE [result |-> Success,
                       options |-> Assign(options, opt, parsed.val),
                       index |-> next]

\* Faulty variant: the field is assigned before the coercion is checked.
ParseValueOption_AssignsFirst(opt, options, argc, argv, arg, index) ==
    LET inlineValue == InlineValue(arg)
    IN  IF ~inlineValue.has /\ ~(index + 1 < argc)
        THEN [result |-> Failure("MissingValue", OptName(arg)),
              options |-> options, index |-> index]
        ELSE LET next   == IF inlineValue.has THEN index ELSE index + 1
                 value  == IF inlineValue.has THEN inlineValue.val
                           ELSE Argv(argv, next)
                 parsed == ValueParser(opt.type.inner, value)
             IN  IF ~parsed.has
                 THEN [result |-> Failure("InvalidValue", arg),
                       options |-> Assign(options, opt, parsed.val),
                       index |-> next]
                 ELSE [result |-> Success,
                       options |-> Assign(options, opt, parsed.val),
                       index |-> next]

\* The non-boolean branch of tryParseOption's lambda
\* Faulty variant: the index is not moved onto the token taken as the value.
ParseValueOption_NoAdvance(opt, options, argc, argv, arg, index) ==
    LET inlineValue == InlineValue(arg)
    IN  IF ~inlineValue.has /\ ~(index + 1 < argc)
        THEN [result |-> Failure("MissingValue", OptName(arg)),
              options |-> options, index |-> index]
        ELSE LET next   == IF inlineValue.has THEN index ELSE index + 1
                 value  == IF inlineValue.has THEN inlineValue.val
                           ELSE Argv(argv, next)
                 parsed == ValueParser(opt.type.inner, value)
             IN  IF ~parsed.has
                 THEN [result |-> Failure("InvalidValue", arg),
                       options |-> options, index |-> index]
                 ELSE [result |-> Success,
                       options |-> Assign(options, opt, parsed.val),
                       index |-> index]

\* Faulty variant: InvalidValue carries the value instead of the option token.
ParseValueOption_ContextIsValue(opt, options, argc, argv, arg, index) ==
    LET inlineValue == InlineValue(arg)
    IN  IF ~inlineValue.has /\ ~(index + 1 < argc)
        THEN [result |-> Failure("MissingValue", OptName(arg)),
              options |-> options, index |-> index]
        ELSE LET next   == IF inlineValue.has THEN index ELSE index + 1
                 value  == IF inlineValue.has THEN inlineValue.val
                           ELSE Argv(argv, next)
                 parsed == ValueParser(opt.type.inner, value)
             IN  IF ~parsed.has
                 THEN [result |-> Failure("InvalidValue", value),
                       options |-> options, index |-> next]
                 ELSE [result |-> Success,
                       options |-> Assign(options, opt, parsed.val),
                       index |-> next]

ParseValueOption(opt, options, argc, argv, arg, index) ==
    LET inlineValue == InlineValue(arg)
    IN  IF ~inlineValue.has /\ ~(index + 1 < argc)
        THEN [result |-> Failure("MissingValue", OptName(arg)),
              options |-> options, index |-> index]
        ELSE LET next   == IF inlineValue.has THEN index ELSE index + 1
                 value  == IF inlineValue.has THEN inlineValue.val
                           ELSE Argv(argv, next)
                 parsed == ValueParser(opt.type.inner, value)
             IN  IF ~parsed.has
                 THEN [result |-> Failure("InvalidValue", arg),
                       options |-> options, index |-> next]
                 ELSE [result |-> Success,
                       options |-> Assign(options, opt, parsed.val),
                       index |-> next]

\* tryParseOption(arg, index): the result, m_options and index on return
TryParseOption(T, options, argc, argv, arg, index) ==
    LET optName == OptName(arg)
        k == FirstMatch(T, optName)
    IN  IF k = 0
        THEN [result |-> Failure("UnknownOption", optName),
              options |-> options, index |-> index]
        ELSE IF T.opts[k].type.inner = "bool"
             THEN ParseBoolOption(T.opts[k], options, arg, index)
             ELSE ParseValueOption(T.opts[k], options, argc, argv, arg, index)

\* Faulty variant: TooManyArgs is built without its context argument.
TryParsePositional_NoContext(T, options, value, targetIndex) ==
    IF targetIndex >= Len(T.args)
    THEN [result |-> Failure("TooManyArgs", EmptyStr), options |-> options]
    ELSE LET arg    == T.args[targetIndex + 1]
             parsed == ValueParser(arg.type.inner, value)
         IN  IF ~parsed.has
             THEN [result |-> Failure("InvalidValue", value),
                   options |-> options]
             ELSE [result |-> Success,
                   options |-> Assign(options, arg, parsed.val)]

\* Faulty variant: every positional token goes to the first slot.
TryParsePositional_FirstSlot(T, options, value, targetIndex) ==
    IF targetIndex >= Len(T.args)
    THEN [result |-> Failure("TooManyArgs", value), options |-> options]
    ELSE LET arg    == T.args[1]
             parsed == ValueParser(arg.type.inner, value)
         IN  IF ~parsed.has
             THEN [result |-> Failure("InvalidValue", value),
                   options |-> options]
             ELSE [result |-> Success,
                   options |-> Assign(options, arg, parsed.val)]

\* tryParsePositional(value, targetIndex): the result and m_options on return
TryParsePositional(T, options, value, targetIndex) ==
    IF targetIndex >= Len(T.args)
    THEN [result |-> Failure("TooManyArgs", value), options |-> options]
    ELSE LET arg    == T.args[targetIndex + 1]
             parsed == ValueParser(arg.type.inner, value)
         IN  IF ~parsed.has
             THEN [result |-> Failure("InvalidValue", value),
                   options |-> options]
             ELSE [result |-> Success,
                   options |-> Assign(options, arg, parsed.val)]

\* Faulty variant: the span is one token short.
SetVarArgs_ShortByOne(T, options, argc, startIndex) ==
    IF T.hasVarArgs
    THEN [options EXCEPT ![T.varargs] =
              [data |-> startIndex, size |-> argc - startIndex - 1]]
    ELSE options

\* setVarArgs(startIndex): the span {m_argv + startIndex, m_argc - startIndex}
SetVarArgs(T, options, argc, startIndex) ==
    IF T.hasVarArgs
    THEN [options EXCEPT ![T.varargs] =
              [data |-> startIndex, size |-> argc - startIndex]]
    ELSE options

\* checkRequired(count)
\* Faulty variant: a required slot is unmet only when the fill count is below
\* its index.
CheckRequired_StrictlyBelow(T, count) ==
    LET unmet == {idx \in 0..(Len(T.args) - 1) :
                     ~T.args[idx + 1].type.optional /\ idx > count}
        missingArg ==
            IF unmet = {} THEN EmptyStr
            ELSE T.args[(CHOOSE idx \in unmet : \A j \in unmet : idx <= j) + 1].name
    IN  IF missingArg # EmptyStr
        THEN Failure("MissingRequiredArg", missingArg)
        ELSE Success

CheckRequired(T, count) ==
    LET unmet == {idx \in 0..(Len(T.args) - 1) :
                     ~T.args[idx + 1].type.optional /\ idx >= count}
        missingArg ==
            IF unmet = {} THEN EmptyStr
            ELSE T.args[(CHOOSE idx \in unmet : \A j \in unmet : idx <= j) + 1].name
    IN  IF missingArg # EmptyStr
        THEN Failure("MissingRequiredArg", missingArg)
        ELSE Success

\* The tokens an ArgSpan views
SpanTokens(argv, span) ==
    [k \in 1..span.size |-> Argv(argv, span.data + k - 1)]

---------------------------------------------------------------------------
(* State                                                                   *)

VARIABLES
    T,               \* the options struct the parser is instantiated with
    m_argc,          \* ArgParser::m_argc
    m_argv,          \* ArgParser::m_argv
    m_programName,   \* ArgParser::m_programName
    m_options,       \* ArgParser::m_options, field name -> value
    pc,              \* "constructed", "scan" (loop head), "finish", "done"
    i,               \* parse(): the loop index
    positionalIndex, \* parse(): the running fill count
    varArgsStart,    \* parse(): -1 or the start of the variadic slice
    result,          \* the ParseResult parse() returned, once pc = "done"
    scanned,         \* indices read as arg = m_argv[i] at the loop head
    consumed,        \* indices read as an option's value, m_argv[++index]
    previous         \* what the earlier calls of parse() returned and left

vars == << T, m_argc, m_argv, m_programName, m_options, pc, i,
           positionalIndex, varArgsStart, result, scanned, consumed,
           previous >>

\* ArgParser(argc, argv) over declaration D, before parse() is called
Constructed(D, argv) ==
    /\ T = D
    /\ m_argv = argv
    /\ m_argc = Len(argv)
    /\ m_programName = ProgramName(Len(argv), argv)
    /\ m_options = D.defaults
    /\ pc = "constructed"
    /\ i = 0
    /\ positionalIndex = 0
    /\ varArgsStart = -1
    /\ result = Success
    /\ scanned = {}
    /\ consumed = {}
    /\ previous = << >>

Init ==
    \E D \in Declarations : \E argv \in ArgvOver(Vocabulary, MaxArgs) :
        Constructed(D, argv)

\* Largest number of tokens after the program name in the option-value runs.
MaxOptArgs == 3

\* Tokens for the value-taking option -c: bare, with an inline value that
\* coerces to int, with one that does not, with an empty one; values,
\* positionals, the separator and the flag.
OptionVocabulary ==
    { tok_c, <<"-","c","=","5">>, <<"-","c","=","a">>, <<"-","c","=">>,
      <<"5">>, <<"a">>, Separator, tok_v, <<"-","v","=","x">> }

\* The parsers whose option -c is an int, a std::optional<int> and a
\* string_view (the last with a variadic slot)
InitOpt ==
    \E D \in {SimpleOptions, MixedOptions, VarArgsOptions} :
        \E argv \in ArgvOver(OptionVocabulary, MaxOptArgs) :
            Constructed(D, argv)

\* Largest number of tokens after the program name in the integer runs.
MaxIntArgs == 2

\* Values given to the int option: the tokens of the ValueParser and
\* NumericOption tests, the ends of the int range and their neighbours, and
\* tokens with a sign, a blank, a point or leading zeros
IntInputs ==
    { << >>,
      <<"0">>,
      <<"4","2">>,
      <<"-","1","0">>,
      <<"-","5","0">>,
      <<"1","2","a","b","c">>,
      <<"a","b","c">>,
      <<"9","9","9","9","9","9","9","9","9","9">>,
      <<"2","1","4","7","4","8","3","6","4","7">>,
      <<"2","1","4","7","4","8","3","6","4","8">>,
      <<"-","2","1","4","7","4","8","3","6","4","8">>,
      <<"-","2","1","4","7","4","8","3","6","4","9">>,
      <<"+","5">>,
      <<"-">>,
      <<"0","0","7">>,
      <<"-","0">>,
      <<" ","5">>,
      <<"5"," ">>,
      <<"1",".","5">>,
      <<"-","-","5">>,
      <<"0","0","0","0","0","0","0","0","0","0","1">> }

\* -c=V for each of the values, a positional and the separator
IntVocabulary ==
    { tok_c \o <<"=">> \o v : v \in IntInputs } \cup { <<"a">>, Separator }

\* The parsers whose option -c is an int and a std::optional<int>
InitInt ==
    \E D \in {SimpleOptions, MixedOptions} :
        \E argv \in ArgvOver(IntVocabulary, MaxIntArgs) :
            Constructed(D, argv)

\* Largest number of tokens after the program name in the program-name runs.
MaxNameArgs == 2

\* Token 0: a path with directories, a bare name, a relative path, a path
\* that ends in "/", the empty token, and tokens that would be the separator
\* or a declared flag at any later position
ProgramPaths ==
    { <<"/","u","/","p">>, <<"p">>, ProgramPath, <<"a","/">>, << >>,
      Separator, tok_v }

NameVocabulary == { tok_v, <<"a">>, Separator, tok_c, <<"5">> }

InitName ==
    \E D \in {SimpleOptions, VarArgsOptions} :
        \E p \in ProgramPaths :
            \E tail \in UNION { [1..k -> NameVocabulary] : k \in 0..MaxNameArgs } :
                Constructed(D, <<p>> \o tail)

\* The boolean spellings given with "=", and spellings that are none of them
TrueSpellings ==
    { <<"t","r","u","e">>, <<"1">>, <<"y","e","s">>, <<"o","n">>, <<"y">> }

FalseSpellings ==
    { <<"f","a","l","s","e">>, <<"0">>, <<"n","o">>, <<"o","f","f">>, <<"n">> }

OtherSpellings ==
    { << >>, <<"Y">>, <<"T","r","u","e">>, <<"N","O">>, <<"2">>,
      <<"t","r","u">>, <<"o","n","e">> }

\* Largest number of tokens after the program name in the boolean runs.
MaxBoolArgs == 2

BoolVocabulary ==
    { <<"-","v","=">> \o w :
          w \in TrueSpellings \cup FalseSpellings \cup OtherSpellings }
    \cup { tok_v, <<"a">>, Separator }

\* The parsers whose option -v is a bool and a std::optional<bool>, run on
\* every spelling of -v=V
InitBool ==
    \E D \in {SimpleOptions, MixedOptions} :
        \E argv \in ArgvOver(BoolVocabulary, MaxBoolArgs) :
            Constructed(D, argv)

---------------------------------------------------------------------------
(* parse()                                                                 *)

\* The token at the loop head
CurrentArg == Argv(m_argv, i)

\* Entry of parse(): the locals are initialised
ParseEnter ==
    /\ pc = "constructed"
    /\ pc' = "scan"
    /\ i' = 1
    /\ positionalIndex' = 0
    /\ varArgsStart' = -1
    /\ UNCHANGED << T, m_argc, m_argv, m_programName, previous, m_options, result,
                    scanned, consumed >>

\* Faulty variant: the slice starts at the separator itself.
SeparatorStart_FromSeparator(argc, idx, start) ==
    IF idx + 1 < argc THEN idx ELSE start

\* varArgsStart after the separator at index idx
SeparatorStart(argc, idx, start) == IF idx + 1 < argc THEN idx + 1 ELSE start

\* arg == "--": break
\* Faulty variant: without a variadic slot the separator is skipped and the
\* scan goes on with the token after it.
ScanSeparator_KeepsScanning ==
    /\ pc = "scan"
    /\ i < m_argc
    /\ CurrentArg = Separator
    /\ IF T.hasVarArgs
       THEN /\ varArgsStart' = SeparatorStart(m_argc, i, varArgsStart)
            /\ pc' = "finish"
            /\ UNCHANGED i
       ELSE /\ i' = i + 1
            /\ UNCHANGED << pc, varArgsStart >>
    /\ scanned' = scanned \cup {i}
    /\ UNCHANGED << T, m_argc, m_argv, m_programName, previous, m_options,
                    positionalIndex, result, consumed >>

ScanSeparator ==
    /\ pc = "scan"
    /\ i < m_argc
    /\ CurrentArg = Separator
    /\ varArgsStart' = SeparatorStart(m_argc, i, varArgsStart)
    /\ pc' = "finish"
    /\ scanned' = scanned \cup {i}
    /\ UNCHANGED << T, m_argc, m_argv, m_programName, previous, m_options, i,
                    positionalIndex, result, consumed >>

\* Faulty variant: a failed option is recorded but the loop goes on.
ScanOption_KeepsScanning ==
    /\ pc = "scan"
    /\ i < m_argc
    /\ CurrentArg # Separator
    /\ StartsWith(CurrentArg, "-")
    /\ LET r == TryParseOption(T, m_options, m_argc, m_argv, CurrentArg, i)
       IN  /\ m_options' = r.options
           /\ consumed' = IF r.index # i THEN consumed \cup {r.index}
                          ELSE consumed
           /\ i' = r.index + 1
           /\ result' = IF IsOk(r.result) THEN result ELSE r.result
           /\ UNCHANGED pc
    /\ scanned' = scanned \cup {i}
    /\ UNCHANGED << T, m_argc, m_argv, m_programName, previous, positionalIndex,
                    varArgsStart >>

\* arg.starts_with('-'): tryParseOption, return on failure, else ++i
\* Faulty variant: the scan resumes at the token after the option token even
\* when the option took that token as its value.
ScanOption_RescansValue ==
    /\ pc = "scan" /\ i < m_argc /\ CurrentArg # Separator /\ StartsWith(CurrentArg, "-")
    /\ LET r == TryParseOption(T, m_options, m_argc, m_argv, CurrentArg, i)
       IN  /\ m_options' = r.options
           /\ consumed' = IF r.index # i THEN consumed \cup {r.index} ELSE consumed
           /\ IF IsOk(r.result) THEN /\ i' = i + 1 /\ UNCHANGED << pc, result >>
              ELSE /\ i' = r.index /\ pc' = "done" /\ result' = r.result
    /\ scanned' = scanned \cup {i}
    /\ UNCHANGED << T, m_argc, m_argv, m_programName, previous, positionalIndex, varArgsStart >>

ScanOption ==
    /\ pc = "scan"
    /\ i < m_argc
    /\ CurrentArg # Separator
    /\ StartsWith(CurrentArg, "-")
    /\ LET r == TryParseOption(T, m_options, m_argc, m_argv, CurrentArg, i)
       IN  /\ m_options' = r.options
           /\ consumed' = IF r.index # i THEN consumed \cup {r.index}
                          ELSE consumed
           /\ IF IsOk(r.result)
              THEN /\ i' = r.index + 1
                   /\ UNCHANGED << pc, result >>
              ELSE /\ i' = r.index
                   /\ pc' = "done"
                   /\ result' = r.result
    /\ scanned' = scanned \cup {i}
    /\ UNCHANGED << T, m_argc, m_argv, m_programName, previous, positionalIndex,
                    varArgsStart >>

\* otherwise: tryParsePositional; ++positionalIndex, or the variadic slice
\* starts here, or return the failure
\* Faulty variant: the slot is chosen by the token's index in argv instead of
\* by the number of positionals seen.
ScanPositional_SlotByIndex ==
    /\ pc = "scan"
    /\ i < m_argc
    /\ CurrentArg # Separator
    /\ ~StartsWith(CurrentArg, "-")
    /\ LET r == TryParsePositional(T, m_options, CurrentArg, i - 1)
       IN  /\ m_options' = r.options
           /\ IF IsOk(r.result)
              THEN /\ positionalIndex' = positionalIndex + 1
                   /\ i' = i + 1
                   /\ UNCHANGED << pc, varArgsStart, result >>
              ELSE IF r.result.error = "TooManyArgs" /\ T.hasVarArgs
              THEN /\ varArgsStart' = i
                   /\ pc' = "finish"
                   /\ UNCHANGED << i, positionalIndex, result >>
              ELSE /\ pc' = "done"
                   /\ result' = r.result
                   /\ UNCHANGED << i, positionalIndex, varArgsStart >>
    /\ scanned' = scanned \cup {i}
    /\ UNCHANGED << T, m_argc, m_argv, m_programName, previous, consumed >>

\* Faulty variant: on overflow the slice starts after the overflowing token.
ScanPositional_OverflowAfterToken ==
    /\ pc = "scan"
    /\ i < m_argc
    /\ CurrentArg # Separator
    /\ ~StartsWith(CurrentArg, "-")
    /\ LET r == TryParsePositional(T, m_options, CurrentArg, positionalIndex)
       IN  /\ m_options' = r.options
           /\ IF IsOk(r.result)
              THEN /\ positionalIndex' = positionalIndex + 1
                   /\ i' = i + 1
                   /\ UNCHANGED << pc, varArgsStart, result >>
              ELSE IF r.result.error = "TooManyArgs" /\ T.hasVarArgs
              THEN /\ varArgsStart' = i + 1
                   /\ pc' = "finish"
                   /\ UNCHANGED << i, positionalIndex, result >>
              ELSE /\ pc' = "done"
                   /\ result' = r.result
                   /\ UNCHANGED << i, positionalIndex, varArgsStart >>
    /\ scanned' = scanned \cup {i}
    /\ UNCHANGED << T, m_argc, m_argv, m_programName, previous, consumed >>

ScanPositional ==
    /\ pc = "scan"
    /\ i < m_argc
    /\ CurrentArg # Separator
    /\ ~StartsWith(CurrentArg, "-")
    /\ LET r == TryParsePositional(T, m_options, CurrentArg, positionalIndex)
       IN  /\ m_options' = r.options
           /\ IF IsOk(r.result)
              THEN /\ positionalIndex' = positionalIndex + 1
                   /\ i' = i + 1
                   /\ UNCHANGED << pc, varArgsStart, result >>
              ELSE IF r.result.error = "TooManyArgs" /\ T.hasVarArgs
              THEN /\ varArgsStart' = i
                   /\ pc' = "finish"
                   /\ UNCHANGED << i, positionalIndex, result >>
              ELSE /\ pc' = "done"
                   /\ result' = r.result
                   /\ UNCHANGED << i, positionalIndex, varArgsStart >>
    /\ scanned' = scanned \cup {i}
    /\ UNCHANGED << T, m_argc, m_argv, m_programName, previous, consumed >>

\* i < m_argc is false: the loop ends
LoopExit ==
    /\ pc = "scan"
    /\ ~(i < m_argc)
    /\ pc' = "finish"
    /\ UNCHANGED << T, m_argc, m_argv, m_programName, previous, m_options, i,
                    positionalIndex, varArgsStart, result, scanned, consumed >>

\* Faulty variant: setVarArgs is called even when no slice was found.
Finish_AlwaysSetsVarArgs ==
    /\ pc = "finish"
    /\ m_options' = SetVarArgs(T, m_options, m_argc, varArgsStart)
    /\ result' = CheckRequired(T, positionalIndex)
    /\ pc' = "done"
    /\ UNCHANGED << T, m_argc, m_argv, m_programName, previous, i, positionalIndex,
                    varArgsStart, scanned, consumed >>

\* After the loop: setVarArgs when a slice was found, then checkRequired
Finish ==
    /\ pc = "finish"
    /\ m_options' = IF varArgsStart >= 0
                    THEN SetVarArgs(T, m_options, m_argc, varArgsStart)
                    ELSE m_options
    /\ result' = CheckRequired(T, positionalIndex)
    /\ pc' = "done"
    /\ UNCHANGED << T, m_argc, m_argv, m_programName, previous, i, positionalIndex,
                    varArgsStart, scanned, consumed >>

\* Largest number of calls of parse() on one parser instance.
MaxCalls == 2

\* Faulty variant: the fill count of the call before is kept.
ParseAgain_KeepsFillCount ==
    /\ pc = "done"
    /\ Len(previous) + 1 < MaxCalls
    /\ previous' = Append(previous, [result |-> result, options |-> m_options])
    /\ pc' = "scan"
    /\ i' = 1
    /\ varArgsStart' = -1
    /\ scanned' = {}
    /\ consumed' = {}
    /\ UNCHANGED << T, m_argc, m_argv, m_programName, m_options,
                    positionalIndex, result >>

\* parse() called again on the same instance: the locals start afresh,
\* m_options is what the call before left
ParseAgain ==
    /\ pc = "done"
    /\ Len(previous) + 1 < MaxCalls
    /\ previous' = Append(previous, [result |-> result, options |-> m_options])
    /\ pc' = "scan"
    /\ i' = 1
    /\ positionalIndex' = 0
    /\ varArgsStart' = -1
    /\ scanned' = {}
    /\ consumed' = {}
    /\ UNCHANGED << T, m_argc, m_argv, m_programName, m_options, result >>

\* parse() as a function of the declaration and argv: the loop from index
\* idx with fill count count, then setVarArgs and checkRequired; the
\* ParseResult returned and m_options on return
RECURSIVE RunScan(_, _, _, _, _)
RunScan(D, argv, options, idx, count) ==
    LET argc == Len(argv)
        AfterLoop(start) ==
            [result  |-> CheckRequired(D, count),
             options |-> IF start >= 0
                         THEN SetVarArgs(D, options, argc, start)
                         ELSE options]
    IN  IF ~(idx < argc) THEN AfterLoop(-1)
        ELSE IF Argv(argv, idx) = Separator
        THEN AfterLoop(SeparatorStart(argc, idx, -1))
        ELSE IF StartsWith(Argv(argv, idx), "-")
        THEN LET r == TryParseOption(D, options, argc, argv,
                                     Argv(argv, idx), idx)
             IN  IF IsOk(r.result)
                 THEN RunScan(D, argv, r.options, r.index + 1, count)
                 ELSE [result |-> r.result, options |-> r.options]
        ELSE LET r == TryParsePositional(D, options, Argv(argv, idx), count)
             IN  IF IsOk(r.result)
                 THEN RunScan(D, argv, r.options, idx + 1, count + 1)
                 ELSE IF r.result.error = "TooManyArgs" /\ D.hasVarArgs
                 THEN AfterLoop(idx)
                 ELSE [result |-> r.result, options |-> r.options]

ParseRun(D, argv) == RunScan(D, argv, D.defaults, 1, 0)

Next ==
    \/ ParseEnter
    \/ ScanSeparator
    \/ ScanOption
    \/ ScanPositional
    \/ LoopExit
    \/ Finish

Spec == Init /\ [][Next]_vars

SpecOpt == InitOpt /\ [][Next]_vars

SpecInt == InitInt /\ [][Next]_vars

\* Largest number of tokens after the program name in the termination runs.
MaxScanArgs == 3

\* A value-taking option, its value, a positional, the separator and a flag
ScanVocabulary == { tok_c, <<"5">>, <<"a">>, Separator, tok_v }

InitScan ==
    \E D \in {SimpleOptions, VarArgsOptions} :
        \E argv \in ArgvOver(ScanVocabulary, MaxScanArgs) :
            Constructed(D, argv)

\* parse() is one sequential call: once entered, it keeps taking steps until
\* it returns
SpecScanFair == InitScan /\ [][Next]_vars /\ WF_vars(Next)

SpecName == InitName /\ [][Next]_vars

\* The steps of parse(), and calling it again once it returned
NextTwice ==
    \/ Next
    \/ ParseAgain

SpecTwice == InitOpt /\ [][NextTwice]_vars

SpecBool == InitBool /\ [][Next]_vars

---------------------------------------------------------------------------
(* Type invariant                                                          *)

TypeOK ==
    /\ T \in Declarations
    /\ m_argc = Len(m_argv)
    /\ pc \in {"constructed", "scan", "finish", "done"}
    /\ i \in 0..m_argc
    /\ positionalIndex \in 0..Len(T.args)
    /\ varArgsStart \in -1..(m_argc - 1)
    /\ result.error \in {"None", "MissingValue", "InvalidValue",
                         "UnknownOption", "MissingRequiredArg", "TooManyArgs"}

\* The state machine returns what parse() computes as a function of argv.
RunAgrees ==
    pc = "done" =>
        /\ result = ParseRun(T, m_argv).result
        /\ m_options = ParseRun(T, m_argv).options

---------------------------------------------------------------------------
(* Vocabulary of the properties                                            *)

Returned == pc = "done"

\* The errors raised while scanning, as opposed to the end-of-scan check
ScanErrors == {"MissingValue", "InvalidValue", "UnknownOption", "TooManyArgs"}

ReturnedScanError == Returned /\ result.error \in ScanErrors

\* The raw tokens at the 0-based indices from .. m_argc - 1
TokensFrom(from) == [k \in 1..(m_argc - from) |-> Argv(m_argv, from + k - 1)]

\* The variadic slice of the result record; empty when T declares none
VariadicSlice ==
    IF T.hasVarArgs THEN SpanTokens(m_argv, m_options[T.varargs]) ELSE << >>

IsDashToken(tok) == Len(tok) > 0 /\ tok[1] = "-"

\* A token the loop head read that is neither the separator nor dash-prefixed
ScannedPositional(s) ==
    s \in scanned /\ Argv(m_argv, s) # Separator /\ ~IsDashToken(Argv(m_argv, s))

\* The number of positional tokens the loop head read before index s
PositionalsBefore(s) ==
    Cardinality({j \in scanned : j < s /\ ScannedPositional(j)})

\* s is a positional token read when every declared slot was already filled
Overflows(s) == ScannedPositional(s) /\ PositionalsBefore(s) = Len(T.args)

---------------------------------------------------------------------------
(* C1 *)

\* C1 as stated: for every declaration list and token sequence, a token "--"
\* at index >= 1 that is followed by at least one token makes the variadic
\* slice, after parse(), equal to the tokens that follow that "--".
C1_AsStated ==
    Returned =>
        \A s \in 1..(m_argc - 2) :
            Argv(m_argv, s) = Separator => VariadicSlice = TokensFrom(s + 1)

\* C1 (amended): when a variadic slot is declared and the scan reaches a
\* token "--" at the loop head (no earlier token raised an error, overflowed
\* into the variadic slot or consumed it as an option's value) that is
\* followed by at least one token, then after parse() the variadic slice is
\* exactly the tokens that follow that "--", in order and verbatim.
C1_SeparatorSlice ==
    (Returned /\ T.hasVarArgs) =>
        \A s \in scanned :
            (Argv(m_argv, s) = Separator /\ s + 1 < m_argc)
                => VariadicSlice = TokensFrom(s + 1)

\* parse() returned after a scanned "--" followed by a dash-prefixed token
\* and one more token, with a variadic slot declared.
C1_Witness ==
    /\ Returned
    /\ T.hasVarArgs
    /\ \E s \in scanned :
          /\ Argv(m_argv, s) = Separator
          /\ s + 2 < m_argc
          /\ IsDashToken(Argv(m_argv, s + 1))
          /\ Len(VariadicSlice) = 2

---------------------------------------------------------------------------
(* C2 *)

\* C2: with a variadic slot declared, a non-dash token read when every
\* positional slot is filled stops the scan, and the variadic slice is that
\* token and every later token, in order and verbatim; when the scan read
\* neither an overflowing token nor a separator, the slice stays empty.
C2_OverflowSlice ==
    (Returned /\ T.hasVarArgs) =>
        /\ \A s \in scanned :
              Overflows(s) =>
                  /\ VariadicSlice = TokensFrom(s)
                  /\ \A j \in (s + 1)..(m_argc - 1) :
                        j \notin scanned /\ j \notin consumed
        /\ (\A s \in scanned : ~Overflows(s) /\ Argv(m_argv, s) # Separator)
              => VariadicSlice = << >>

\* parse() returned after an overflowing token that is followed by a
\* dash-prefixed token, which became part of the slice.
C2_Witness ==
    /\ Returned
    /\ T.hasVarArgs
    /\ Len(T.args) > 0
    /\ \E s \in scanned :
          /\ Overflows(s)
          /\ s + 1 < m_argc
          /\ IsDashToken(Argv(m_argv, s + 1))
          /\ VariadicSlice = TokensFrom(s)

---------------------------------------------------------------------------
(* C3 *)

\* C3: with no variadic slot declared, a non-dash token read when the fill
\* count equals the number of positional slots makes parse() return
\* TooManyArgs with that token as context.
C3_TooManyArgs ==
    (Returned /\ ~T.hasVarArgs) =>
        \A s \in scanned :
            Overflows(s) => result = Failure("TooManyArgs", Argv(m_argv, s))

\* Slots {required, optional}, three positional tokens: TooManyArgs on the
\* third.
C3_Witness ==
    /\ Returned
    /\ T = MixedOptions
    /\ m_argc = 4
    /\ Overflows(3)
    /\ result = Failure("TooManyArgs", Argv(m_argv, 3))

---------------------------------------------------------------------------
(* C4 *)

\* The required (not optional-wrapped) slots, 0-based, the scan left unfilled
UnfilledRequired ==
    {k \in 0..(Len(T.args) - 1) :
        ~T.args[k + 1].type.optional /\ ~(k < positionalIndex)}

FirstUnfilledRequired ==
    CHOOSE k \in UnfilledRequired : \A j \in UnfilledRequired : k <= j

\* C4: parse() returns success iff the scan raised no error and every
\* required positional slot was filled; with no scan error and a required
\* slot unfilled it returns MissingRequiredArg with the name of the first
\* such slot in declaration order.
C4_SuccessIffRequiredFilled ==
    Returned =>
        /\ IsOk(result) <=>
              (result.error \notin ScanErrors /\ UnfilledRequired = {})
        /\ (result.error \notin ScanErrors /\ UnfilledRequired # {}) =>
              result = Failure("MissingRequiredArg",
                               T.args[FirstUnfilledRequired + 1].name)

---------------------------------------------------------------------------
(* C5 *)

\* What the token read at index s raises on its own: the outcome of the
\* option or positional handling of that token, given the positional tokens
\* read before it.
TokenResult(s) ==
    IF IsDashToken(Argv(m_argv, s))
    THEN TryParseOption(T, T.defaults, m_argc, m_argv, Argv(m_argv, s), s).result
    ELSE TryParsePositional(T, T.defaults, Argv(m_argv, s),
                            PositionalsBefore(s)).result

\* The token read at index s raised an error parse() has to return
Offends(s) ==
    /\ s \in scanned
    /\ Argv(m_argv, s) # Separator
    /\ ~IsOk(TokenResult(s))
    /\ ~(TokenResult(s).error = "TooManyArgs" /\ T.hasVarArgs)

\* C5: parse() is fail-fast.  A returned scan error is the one raised by the
\* leftmost offending token: every token before it was read and raised
\* nothing, and no token after it is examined (but the value it consumed);
\* MissingRequiredArg is returned only when no token read raised an error.
C5_FailFast ==
    /\ ReturnedScanError =>
          \E s \in scanned :
              /\ Offends(s)
              /\ result = TokenResult(s)
              /\ \A j \in 1..(s - 1) :
                    /\ j \in scanned \cup consumed
                    /\ ~Offends(j)
              /\ \A j \in (s + 1)..(m_argc - 1) :
                    /\ j \notin scanned
                    /\ j \in consumed => (j = s + 1 /\ i = j)
    /\ (Returned /\ ~ReturnedScanError) => \A s \in scanned : ~Offends(s)

\* parse() returned the error of the second token although the third token
\* would raise an error of another kind.
C5_Witness ==
    /\ ReturnedScanError
    /\ m_argc = 4
    /\ scanned = {1, 2}
    /\ result.error = "UnknownOption"
    /\ Argv(m_argv, 3) = <<"-","v","=","x">>
    /\ T = SimpleOptions

---------------------------------------------------------------------------
(* C6 *)

\* C6: no rollback.  The step that makes parse() return a scan error leaves
\* the whole result record as the earlier tokens left it (the failing token
\* writes nothing), and a MissingRequiredArg return changes no field but the
\* variadic slice.
C6_NoRollback ==
    [][ /\ (pc = "scan" /\ pc' = "done") => m_options' = m_options
        /\ (pc = "finish" /\ pc' = "done") =>
              \A f \in DOMAIN m_options :
                  f # T.varargs => m_options'[f] = m_options[f]
      ]_vars

\* parse() returned InvalidValue for an integer option after an earlier
\* token had set the flag and another the positional slot.
C6_Witness ==
    /\ ReturnedScanError
    /\ T = SimpleOptions
    /\ result.error = "InvalidValue"
    /\ m_options["verbose"] = TRUE
    /\ m_options["count"] = 0
    /\ Argv(m_argv, i - 1) = tok_c

---------------------------------------------------------------------------
(* C7 *)

\* The part of a token before its first "=" (the whole token without one)
RECURSIVE NameBeforeEq(_)
NameBeforeEq(tok) ==
    IF tok = << >> \/ Head(tok) = "=" THEN << >>
    ELSE <<Head(tok)>> \o NameBeforeEq(Tail(tok))

\* The part of a token after its first "="
RECURSIVE ValueAfterEq(_)
ValueAfterEq(tok) ==
    IF tok = << >> THEN << >>
    ELSE IF Head(tok) = "=" THEN Tail(tok)
    ELSE ValueAfterEq(Tail(tok))

HasEq(tok) == \E k \in 1..Len(tok) : tok[k] = "="

\* The primary and alternate names T declares
DeclaredNames ==
    {T.opts[k].name : k \in 1..Len(T.opts)}
        \cup {T.opts[k].altName : k \in 1..Len(T.opts)}

\* A token the loop head read that is dash-prefixed and not the separator
ScannedOption(s) ==
    s \in scanned /\ IsDashToken(Argv(m_argv, s)) /\ Argv(m_argv, s) # Separator

\* C7: every scanned dash-prefixed token other than "--" (a lone "-" and
\* "-5" included) is handled as an option, never as a positional; when the
\* part before its first "=" is not exactly a declared primary or alternate
\* name, parse() returns UnknownOption with that part as context.
C7_UnknownOption ==
    /\ Returned =>
          \A s \in scanned :
              (ScannedOption(s)
                  /\ NameBeforeEq(Argv(m_argv, s)) \notin DeclaredNames)
              => result = Failure("UnknownOption", NameBeforeEq(Argv(m_argv, s)))
    /\ positionalIndex <= Cardinality({s \in scanned : ScannedPositional(s)})

\* parse() returned UnknownOption "--verb" for the token --verb=y, a proper
\* prefix of the declared --verbose.
C7_Witness ==
    /\ Returned
    /\ Len(T.opts) > 0
    /\ T.opts[1].altName = tok_verbose
    /\ \E s \in scanned : Argv(m_argv, s) = <<"-","-","v","e","r","b","=","y">>
    /\ result = Failure("UnknownOption", <<"-","-","v","e","r","b">>)

---------------------------------------------------------------------------
(* C8 *)

\* The token read at index s names, with no inline value, a declared option
\* whose field is not boolean
BareValueOption(s) ==
    /\ ScannedOption(s)
    /\ ~HasEq(Argv(m_argv, s))
    /\ FirstMatch(T, Argv(m_argv, s)) # 0
    /\ T.opts[FirstMatch(T, Argv(m_argv, s))].type.inner # "bool"

\* C8: a matched non-boolean option with no inline value that is the last
\* token makes parse() return MissingValue with the option name as context,
\* and MissingValue is returned in no other case.
C8_MissingValue ==
    Returned =>
        /\ \A s \in scanned :
              (BareValueOption(s) /\ s = m_argc - 1)
                  => result = Failure("MissingValue", Argv(m_argv, s))
        /\ result.error = "MissingValue" =>
              /\ BareValueOption(m_argc - 1)
              /\ result.context = Argv(m_argv, m_argc - 1)

\* parse() returned MissingValue for a trailing -c after two other tokens.
C8_Witness ==
    /\ Returned
    /\ m_argc = 4
    /\ BareValueOption(3)
    /\ result = Failure("MissingValue", tok_c)

---------------------------------------------------------------------------
(* C9 *)

\* The loop head is at a token name=V whose name matches a boolean option
AtInlineBoolOption ==
    /\ pc = "scan"
    /\ i < m_argc
    /\ IsDashToken(CurrentArg)
    /\ CurrentArg # Separator
    /\ HasEq(CurrentArg)
    /\ FirstMatch(T, NameBeforeEq(CurrentArg)) # 0
    /\ T.opts[FirstMatch(T, NameBeforeEq(CurrentArg))].type.inner = "bool"

\* The bool or std::optional<bool> field of option opt holds b in options
BoolFieldIs(options, opt, b) ==
    IF opt.type.optional
    THEN options[opt.field].has /\ options[opt.field].val = b
    ELSE options[opt.field] = b

\* C9: for a boolean (or optional-wrapped boolean) option given as name=V,
\* V in {true, 1, yes, on, y} sets the field to true, V in {false, 0, no,
\* off, n} sets it to false, and any other V (the empty string and other
\* letter cases included) makes parse() return InvalidValue with the record
\* unchanged.
C9_BoolSpellings ==
    [][ AtInlineBoolOption =>
          LET opt == T.opts[FirstMatch(T, NameBeforeEq(CurrentArg))]
              V   == ValueAfterEq(CurrentArg)
          IN  /\ V \in TrueSpellings =>
                    (pc' = "scan" /\ BoolFieldIs(m_options', opt, TRUE))
              /\ V \in FalseSpellings =>
                    (pc' = "scan" /\ BoolFieldIs(m_options', opt, FALSE))
              /\ V \notin TrueSpellings \cup FalseSpellings =>
                    /\ pc' = "done"
                    /\ result'.error = "InvalidValue"
                    /\ m_options' = m_options
      ]_vars

\* -v=yes then -v=off on the std::optional<bool> field: present and false.
C9_Witness ==
    /\ T = MixedOptions
    /\ pc = "scan"
    /\ i = 3
    /\ Argv(m_argv, 1) = <<"-","v","=","y","e","s">>
    /\ Argv(m_argv, 2) = <<"-","v","=","o","f","f">>
    /\ m_options["debug"] = Some(FALSE)

---------------------------------------------------------------------------
(* C10 *)

\* The loop head is at a token, without "=", that matches a boolean option
AtBareFlag ==
    /\ pc = "scan"
    /\ i < m_argc
    /\ IsDashToken(CurrentArg)
    /\ CurrentArg # Separator
    /\ ~HasEq(CurrentArg)
    /\ FirstMatch(T, CurrentArg) # 0
    /\ T.opts[FirstMatch(T, CurrentArg)].type.inner = "bool"

\* C10: a bare boolean flag always sets its field to true, whatever an
\* earlier token assigned, and consumes nothing: the scan goes on at the
\* very next token.
C10_BareFlag ==
    [][ AtBareFlag =>
          /\ BoolFieldIs(m_options', T.opts[FirstMatch(T, CurrentArg)], TRUE)
          /\ pc' = "scan"
          /\ i' = i + 1
          /\ consumed' = consumed
      ]_vars

\* -v=n then -v: the flag is true again, and the token after -v is the next
\* one at the loop head.
C10_Witness ==
    /\ T = SimpleOptions
    /\ m_argc = 4
    /\ Argv(m_argv, 1) = <<"-","v","=","n">>
    /\ Argv(m_argv, 2) = tok_v
    /\ pc = "scan"
    /\ i = 3
    /\ consumed = {}
    /\ m_options["verbose"] = TRUE

---------------------------------------------------------------------------
(* C11 *)

\* The token read at index s is name=V for a declared non-boolean option
InlineValueOption(s) ==
    /\ ScannedOption(s)
    /\ HasEq(Argv(m_argv, s))
    /\ FirstMatch(T, NameBeforeEq(Argv(m_argv, s))) # 0
    /\ T.opts[FirstMatch(T, NameBeforeEq(Argv(m_argv, s)))].type.inner # "bool"

\* argv with the token name=V at index s given as the two tokens name, V
SplitAt(argv, s) ==
    SubSeq(argv, 1, s)
        \o << NameBeforeEq(Argv(argv, s)), ValueAfterEq(Argv(argv, s)) >>
        \o SubSeq(argv, s + 2, Len(argv))

\* argv with the tokens name, V at indices s, s + 1 given as one token name=V
JoinAt(argv, s) ==
    SubSeq(argv, 1, s)
        \o << Argv(argv, s) \o <<"=">> \o Argv(argv, s + 1) >>
        \o SubSeq(argv, s + 3, Len(argv))

\* Two result records of T hold the same values, the variadic slices being
\* compared by the tokens they view
SameRecord(argvA, optionsA, argvB, optionsB) ==
    \A f \in DOMAIN optionsA :
        IF T.hasVarArgs /\ f = T.varargs
        THEN SpanTokens(argvA, optionsA[f]) = SpanTokens(argvB, optionsB[f])
        ELSE optionsA[f] = optionsB[f]

\* parse() over the other argv returns the same kind of outcome and leaves
\* the same result record as the run that returned
SameAsRun(other) ==
    /\ ParseRun(T, other).result.error = result.error
    /\ SameRecord(m_argv, m_options, other, ParseRun(T, other).options)

\* C11: a non-boolean option read by the scan takes its value the same way
\* inline (name=V) and from the next token (name V): with the other tokens
\* unchanged, either form leaves the same result record and returns the same
\* kind of outcome as the other.
C11_InlineEqualsNextToken ==
    Returned =>
        \A s \in scanned :
            /\ InlineValueOption(s) => SameAsRun(SplitAt(m_argv, s))
            /\ (BareValueOption(s) /\ s + 1 < m_argc)
                  => SameAsRun(JoinAt(m_argv, s))

\* -c=5 then a positional returned success with count = 5, as does -c 5.
C11_Witness ==
    /\ Returned
    /\ T = SimpleOptions
    /\ m_argc = 3
    /\ InlineValueOption(1)
    /\ IsOk(result)
    /\ m_options["count"] = 5
    /\ IsOk(ParseRun(T, SplitAt(m_argv, 1)).result)
    /\ Len(SplitAt(m_argv, 1)) = 4

---------------------------------------------------------------------------
(* C12 *)

\* The option the bare token at index s names
OptionAt(s) == T.opts[FirstMatch(T, Argv(m_argv, s))]

\* The token after the bare option at index s, coerced to the option's type
NextTokenValue(s) == ValueParser(OptionAt(s).type.inner, Argv(m_argv, s + 1))

\* C12: the token after a matched non-boolean option given without an inline
\* value is always taken as that option's value, whatever it looks like; the
\* loop head never reads a token taken as a value, so it is never counted as
\* a positional, matched as an option or treated as the separator, and only
\* the token after such an option is ever taken.
C12_NextTokenConsumed ==
    /\ \A s \in scanned :
          (BareValueOption(s) /\ s + 1 < m_argc) =>
              /\ s + 1 \in consumed
              /\ (pc = "scan" /\ i = s + 2) =>
                    /\ NextTokenValue(s).has
                    /\ m_options = Assign(m_options, OptionAt(s),
                                          NextTokenValue(s).val)
              /\ ~NextTokenValue(s).has => result.error = "InvalidValue"
    /\ consumed \cap scanned = {}
    /\ \A j \in consumed : BareValueOption(j - 1)
    /\ positionalIndex <= Cardinality({s \in scanned : ScannedPositional(s)})
    /\ varArgsStart >= 0 =>
          \/ varArgsStart \in scanned /\ ScannedPositional(varArgsStart)
          \/ /\ varArgsStart - 1 \in scanned
             /\ Argv(m_argv, varArgsStart - 1) = Separator

\* -c took "--" as its value: the token after it filled the positional slot
\* and the variadic slice stayed empty.
C12_Witness ==
    /\ Returned
    /\ T = VarArgsOptions
    /\ m_argc = 4
    /\ BareValueOption(1)
    /\ Argv(m_argv, 2) = Separator
    /\ consumed = {2}
    /\ m_options["conf"] = Separator
    /\ m_options["command"] = <<"a">>
    /\ VariadicSlice = << >>
    /\ IsOk(result)

---------------------------------------------------------------------------
(* C13 *)

\* The slot the positional token read at index s is for: the k-th positional
\* token goes to the k-th declared slot
SlotOf(s) == T.args[PositionalsBefore(s) + 1]

\* The positional token read at index s, coerced to the type of its slot
SlotValue(s) == ValueParser(SlotOf(s).type.inner, Argv(m_argv, s))

\* The positional tokens the loop head read that had a slot left
SlottedPositionals ==
    {s \in scanned : ScannedPositional(s) /\ PositionalsBefore(s) < Len(T.args)}

\* C13: positional slots are filled strictly in declaration order: the k-th
\* positional token is coerced to the type of slot k and assigned to slot k
\* only; the fill count is the number of successful assignments and never
\* exceeds the number of slots; a token that fails coercion makes parse()
\* return InvalidValue with the token as context, leaving the fill count and
\* the slot as they were.
C13_SlotsInOrder ==
    /\ positionalIndex <= Len(T.args)
    /\ positionalIndex = Cardinality({s \in SlottedPositionals : SlotValue(s).has})
    /\ \A s \in SlottedPositionals :
          IF SlotValue(s).has
          THEN m_options = Assign(m_options, SlotOf(s), SlotValue(s).val)
          ELSE /\ result = Failure("InvalidValue", Argv(m_argv, s))
               /\ positionalIndex = PositionalsBefore(s)
               /\ m_options[SlotOf(s).field] = T.defaults[SlotOf(s).field]
    /\ \A k \in (positionalIndex + 1)..Len(T.args) :
          m_options[T.args[k].field] = T.defaults[T.args[k].field]

\* Two positional tokens filled the int slot and then the string slot, each
\* with its own token.
C13_Witness ==
    /\ Returned
    /\ T = EdgeOptions
    /\ positionalIndex = 2
    /\ ScannedPositional(1)
    /\ ScannedPositional(2)
    /\ m_options["num"] = Some(5)
    /\ m_options["rest"] = <<"a">>

---------------------------------------------------------------------------
(* C14 *)

\* The number of tokens of the option occurrence that starts at index s: one
\* for a bare flag or for name=V, two for a non-boolean name followed by its
\* value token, none when no occurrence of a declared option starts there
OccurrenceWidth(s) ==
    IF ~(s < m_argc) THEN 0
    ELSE LET tok == Argv(m_argv, s)
             k   == FirstMatch(T, NameBeforeEq(tok))
         IN  IF ~IsDashToken(tok) \/ tok = Separator \/ k = 0 THEN 0
             ELSE IF HasEq(tok) \/ T.opts[k].type.inner = "bool" THEN 1
             ELSE IF s + 1 < m_argc THEN 2
             ELSE 0

\* An option occurrence read at index s, directly followed by a positional
\* token that fills a declared slot
OptThenPos(s) ==
    /\ s \in scanned
    /\ OccurrenceWidth(s) > 0
    /\ s + OccurrenceWidth(s) < m_argc
    /\ ~IsDashToken(Argv(m_argv, s + OccurrenceWidth(s)))
    /\ PositionalsBefore(s) < Len(T.args)
    /\ ValueParser(T.args[PositionalsBefore(s) + 1].type.inner,
                   Argv(m_argv, s + OccurrenceWidth(s))).has

\* A positional token read at index s that filled a declared slot, directly
\* followed by an option occurrence
PosThenOpt(s) ==
    /\ s \in SlottedPositionals
    /\ SlotValue(s).has
    /\ OccurrenceWidth(s + 1) > 0

\* argv with the w-token occurrence at index s and the token after it swapped
SwapOptPos(argv, s, w) ==
    SubSeq(argv, 1, s) \o << Argv(argv, s + w) >>
        \o SubSeq(argv, s + 1, s + w) \o SubSeq(argv, s + w + 2, Len(argv))

\* argv with the token at index s and the w-token occurrence after it swapped
SwapPosOpt(argv, s, w) ==
    SubSeq(argv, 1, s) \o SubSeq(argv, s + 2, s + w + 1)
        \o << Argv(argv, s) >> \o SubSeq(argv, s + w + 2, Len(argv))

\* parse() over the other argv returns the very outcome of the run that
\* returned, error kind and context
SameOutcome(other) == ParseRun(T, other).result = result

\* parse() over the other argv leaves the result record of the run that
\* returned
SameRecordAs(other) ==
    SameRecord(m_argv, m_options, other, ParseRun(T, other).options)

\* C14 as stated: swapping an adjacent option occurrence (bare flag, name=V,
\* or name V pair) with a positional token that fills a declared slot yields
\* the same result record and the same outcome.
C14_AsStated ==
    Returned =>
        \A s \in scanned :
            /\ OptThenPos(s) =>
                  /\ SameOutcome(SwapOptPos(m_argv, s, OccurrenceWidth(s)))
                  /\ SameRecordAs(SwapOptPos(m_argv, s, OccurrenceWidth(s)))
            /\ PosThenOpt(s) =>
                  /\ SameOutcome(SwapPosOpt(m_argv, s, OccurrenceWidth(s + 1)))
                  /\ SameRecordAs(SwapPosOpt(m_argv, s, OccurrenceWidth(s + 1)))

\* C14 (amended): swapping an adjacent option occurrence with a positional
\* token that fills a declared slot always yields the same outcome, and the
\* same result record whenever the option occurrence is accepted (its value
\* coerces); when it is rejected the two records differ in the positional's
\* slot only, assigned in the order that puts the positional first.
C14_Interleave ==
    Returned =>
        \A s \in scanned :
            /\ OptThenPos(s) =>
                  /\ SameOutcome(SwapOptPos(m_argv, s, OccurrenceWidth(s)))
                  /\ IsOk(TokenResult(s)) =>
                        SameRecordAs(SwapOptPos(m_argv, s, OccurrenceWidth(s)))
                  /\ ~IsOk(TokenResult(s)) =>
                        ParseRun(T, SwapOptPos(m_argv, s, OccurrenceWidth(s))).options
                            = Assign(m_options, SlotOf(s),
                                     ValueParser(SlotOf(s).type.inner,
                                         Argv(m_argv, s + OccurrenceWidth(s))).val)
            /\ PosThenOpt(s) =>
                  /\ SameOutcome(SwapPosOpt(m_argv, s, OccurrenceWidth(s + 1)))
                  /\ IsOk(TokenResult(s + 1)) =>
                        SameRecordAs(SwapPosOpt(m_argv, s, OccurrenceWidth(s + 1)))

\* -c 5 before the positional "a" returned success with both assigned, and
\* so does "a" before -c 5.
C14_Witness ==
    /\ Returned
    /\ T = SimpleOptions
    /\ m_argc = 4
    /\ OptThenPos(1)
    /\ OccurrenceWidth(1) = 2
    /\ IsOk(result)
    /\ m_options["count"] = 5
    /\ m_options["name"] = <<"a">>
    /\ ParseRun(T, SwapOptPos(m_argv, 1, 2)).options = m_options

---------------------------------------------------------------------------
(* C15 *)

\* The fields of the option tokens the scan read and accepted
OptionWrittenFields ==
    {T.opts[FirstMatch(T, NameBeforeEq(Argv(m_argv, s)))].field :
        s \in {j \in scanned :
                  /\ ScannedOption(j)
                  /\ FirstMatch(T, NameBeforeEq(Argv(m_argv, j))) # 0
                  /\ IsOk(TokenResult(j))}}

\* The fields of the slots the positional tokens read by the scan filled
PositionalWrittenFields ==
    {SlotOf(s).field : s \in {j \in SlottedPositionals : SlotValue(j).has}}

\* The variadic field, once parse() returned after the scan read a "--"
\* followed by a token or a positional beyond the declared slots
VariadicWrittenFields ==
    IF /\ T.hasVarArgs
       /\ Returned
       /\ \E s \in scanned :
             \/ Argv(m_argv, s) = Separator /\ s + 1 < m_argc
             \/ Overflows(s)
    THEN {T.varargs} ELSE {}

WrittenFields ==
    OptionWrittenFields \cup PositionalWrittenFields \cup VariadicWrittenFields

\* C15: at every point of parse(), and after it whatever the outcome, a
\* field of the result record that no processed token wrote still holds the
\* value the record carried at construction; an optional field is engaged
\* only when some token assigned it.
C15_UntouchedKeepDefault ==
    \A f \in DOMAIN m_options :
        f \notin WrittenFields => m_options[f] = T.defaults[f]

\* parse() returned InvalidValue after -v and a positional were assigned:
\* the flag and the first slot are set, the other two optionals are not
\* engaged.
C15_Witness ==
    /\ Returned
    /\ T = MixedOptions
    /\ result.error = "InvalidValue"
    /\ m_options["debug"] = Some(TRUE)
    /\ m_options["input"] = <<"a">>
    /\ ~m_options["level"].has
    /\ ~m_options["output"].has
    /\ WrittenFields = {"debug", "input"}

---------------------------------------------------------------------------
(* C16 *)

\* The whole token is an optional "-" followed by one or more decimal digits
IntegerToken(v) ==
    LET from == IF Len(v) > 0 /\ v[1] = "-" THEN 2 ELSE 1
    IN  /\ Len(v) >= from
        /\ \A k \in from..Len(v) : v[k] \in DigitChars

\* The digits of an integer token without its sign and leading zeros
RECURSIVE StripZeros(_)
StripZeros(d) ==
    IF Len(d) > 1 /\ Head(d) = "0" THEN StripZeros(Tail(d)) ELSE d

Magnitude(v) ==
    StripZeros(IF v[1] = "-" THEN Tail(v) ELSE v)

\* Digit strings without leading zeros compared as numbers: a <= b
RECURSIVE DigitsLeq(_, _)
DigitsLeq(a, b) ==
    IF Len(a) # Len(b) THEN Len(a) < Len(b)
    ELSE IF a = << >> THEN TRUE
    ELSE IF Head(a) # Head(b) THEN DigitValue(Head(a)) < DigitValue(Head(b))
    ELSE DigitsLeq(Tail(a), Tail(b))

\* The integer token denotes a value of the 32-bit int range
Representable(v) ==
    IF v[1] = "-"
    THEN DigitsLeq(Magnitude(v), <<"2","1","4","7","4","8","3","6","4","8">>)
    ELSE DigitsLeq(Magnitude(v), <<"2","1","4","7","4","8","3","6","4","7">>)

\* The value a representable integer token denotes
RECURSIVE DigitsValue(_, _, _)
DigitsValue(d, neg, acc) ==
    IF d = << >> THEN acc
    ELSE DigitsValue(Tail(d), neg,
                     IF neg THEN acc * 10 - DigitValue(Head(d))
                            ELSE acc * 10 + DigitValue(Head(d)))

ExactValue(v) == DigitsValue(Magnitude(v), v[1] = "-", 0)

\* The tokens -c=V the scan read, -c being the int option of T
IntOptionTokens ==
    {s \in scanned :
        /\ InlineValueOption(s)
        /\ T.opts[FirstMatch(T, NameBeforeEq(Argv(m_argv, s)))].type.inner = "int"}

\* The step that read -c=V at index s accepted V and went on
Accepted(s) == i > s

\* The step that read -c=V at index s returned InvalidValue for the token
Rejected(s) ==
    /\ i = s
    /\ Returned
    /\ result = Failure("InvalidValue", Argv(m_argv, s))

---------------------------------------------------------------------------
(* C17 *)

\* A step never moves the scan index backwards, and a step after which the
\* loop goes on moves it forward by one, or by two exactly when the token
\* read is a non-boolean option that takes the next token as its value
IndexAdvances ==
    /\ i' >= i
    /\ (pc = "scan" /\ pc' = "scan") =>
          /\ i' \in {i + 1, i + 2}
          /\ i' = i + 2 <=> OccurrenceWidth(i) = 2

\* The loop has run at most once per token after the program name
BoundedIterations ==
    /\ i <= m_argc
    /\ m_argc >= 1 => Cardinality(scanned) <= m_argc - 1
    /\ \A s \in scanned : 1 <= s /\ s < m_argc

\* C17: parse() terminates on every token sequence: the scan index strictly
\* increases on every step of the loop (by one, or by two when an option
\* takes the next token), never moves backwards, the loop runs at most
\* (number of tokens - 1) times, and parse() returns an outcome.
C17_Terminates ==
    /\ [][IndexAdvances]_vars
    /\ []BoundedIterations
    /\ <>Returned

\* parse() returned after two iterations over three tokens, the first of
\* which moved the index by two.
C17_Witness ==
    /\ Returned
    /\ m_argc = 4
    /\ scanned = {1, 3}
    /\ consumed = {2}
    /\ i = m_argc

---------------------------------------------------------------------------
(* C18 *)

\* The part of a token after its last "/" (the whole token without one)
RECURSIVE AfterLastSlash(_)
AfterLastSlash(tok) ==
    IF \E k \in 1..Len(tok) : tok[k] = "/"
    THEN AfterLastSlash(Tail(tok))
    ELSE tok

\* C18: the program name is the part of token 0 after its last "/", or the
\* whole token 0 when it has none; token 0 is used for nothing else: the
\* scan never reads it, it is never taken as a value or put in the variadic
\* slice, and replacing it by any other token leaves the outcome and the
\* result record of parse() unchanged.
C18_ProgramName ==
    /\ m_programName = AfterLastSlash(Argv(m_argv, 0))
    /\ 0 \notin scanned \cup consumed
    /\ (T.hasVarArgs /\ m_options[T.varargs].size > 0)
          => m_options[T.varargs].data >= 1
    /\ Returned =>
          \A p \in ProgramPaths :
              /\ ParseRun(T, <<p>> \o Tail(m_argv)).result = result
              /\ ParseRun(T, <<p>> \o Tail(m_argv)).options = m_options

\* parse() returned for a token 0 with two "/": the name is what follows the
\* last one, and the tokens after token 0 were parsed.
C18_Witness ==
    /\ Returned
    /\ Argv(m_argv, 0) = <<"/","u","/","p">>
    /\ m_programName = <<"p">>
    /\ m_argc = 3
    /\ IsOk(result)
    /\ scanned = {1, 2}

---------------------------------------------------------------------------
(* C19 *)

\* The 0-based indices of the slots whose type is not optional-wrapped
RequiredSlots ==
    {k \in 0..(Len(T.args) - 1) : ~T.args[k + 1].type.optional}

\* parse() returned from the end-of-scan check
CheckedRequired == Returned /\ result.error \notin ScanErrors

\* C19 as stated: a required slot at index k counts as met exactly when the
\* fill count is >= k: the check succeeds when that holds of every required
\* slot, and the slot named by MissingRequiredArg has an index above the
\* fill count.
C19_AsStated ==
    CheckedRequired =>
        /\ (\A k \in RequiredSlots : positionalIndex >= k) => IsOk(result)
        /\ result.error = "MissingRequiredArg" =>
              \E k \in RequiredSlots :
                  /\ T.args[k + 1].name = result.context
                  /\ positionalIndex < k

\* C19 (amended): a required slot at index k counts as met exactly when the
\* fill count has passed k (fill count > k): the check succeeds when that
\* holds of every required slot; MissingRequiredArg names the first required
\* slot with fill count <= k; and such a first slot, declared with a
\* non-empty name, is always reported.
C19_CheckRequired ==
    CheckedRequired =>
        /\ (\A k \in RequiredSlots : positionalIndex > k) => IsOk(result)
        /\ result.error = "MissingRequiredArg" =>
              \E k \in RequiredSlots :
                  /\ T.args[k + 1].name = result.context
                  /\ positionalIndex <= k
                  /\ \A j \in RequiredSlots : j < k => positionalIndex > j
        /\ \A k \in RequiredSlots :
              (/\ positionalIndex <= k
               /\ \A j \in RequiredSlots : j < k => positionalIndex > j
               /\ T.args[k + 1].name # EmptyStr)
                  => result = Failure("MissingRequiredArg", T.args[k + 1].name)

\* The scan ended with fill count 0 and the required slot 0 was reported.
C19_Witness ==
    /\ CheckedRequired
    /\ T = SimpleOptions
    /\ positionalIndex = 0
    /\ 0 \in RequiredSlots
    /\ \E s \in scanned : ScannedOption(s)
    /\ result = Failure("MissingRequiredArg", T.args[1].name)

---------------------------------------------------------------------------
(* C20 *)

\* The token read at index s is name=V for a declared option, boolean or not,
\* and V does not coerce to the option's type
InlineValueFails(s) ==
    /\ ScannedOption(s)
    /\ HasEq(Argv(m_argv, s))
    /\ FirstMatch(T, NameBeforeEq(Argv(m_argv, s))) # 0
    /\ ~ValueParser(T.opts[FirstMatch(T, NameBeforeEq(Argv(m_argv, s)))].type.inner,
                    ValueAfterEq(Argv(m_argv, s))).has

\* The token read at index s is a bare non-boolean option and the token after
\* it does not coerce to the option's type
NextTokenValueFails(s) ==
    /\ BareValueOption(s)
    /\ s + 1 < m_argc
    /\ ~NextTokenValue(s).has

\* C20: when the value of a matched option fails coercion, parse() returns
\* InvalidValue with the full option token as context: the whole name=V
\* token for the inline form, the option token (not the value token) for the
\* next-token form.
C20_InvalidValueContext ==
    Returned =>
        \A s \in scanned :
            /\ InlineValueFails(s) =>
                  result = Failure("InvalidValue", Argv(m_argv, s))
            /\ NextTokenValueFails(s) =>
                  result = Failure("InvalidValue", Argv(m_argv, s))

\* -c a for the int option returned InvalidValue with context -c, the value
\* token "a" having been taken.
C20_Witness ==
    /\ Returned
    /\ NextTokenValueFails(1)
    /\ Argv(m_argv, 2) = <<"a">>
    /\ consumed = {2}
    /\ result = Failure("InvalidValue", tok_c)

---------------------------------------------------------------------------
(* C21 *)

\* argv cut before the token at index s: the program name and the tokens at
\* indices 1 .. s - 1
Before(argv, s) == SubSeq(argv, 1, s)

\* C21: when no variadic slot is declared, a "--" read by the scan stops it
\* and every token after it is discarded: none of them is read or taken as a
\* value, the outcome is not a scan error, and the outcome and the result
\* record are those of parse() over the tokens before the "--" alone.
C21_SeparatorDiscards ==
    (Returned /\ ~T.hasVarArgs) =>
        \A s \in scanned :
            Argv(m_argv, s) = Separator =>
                /\ \A j \in scanned \cup consumed : j <= s
                /\ result.error \notin ScanErrors
                /\ result = ParseRun(T, Before(m_argv, s)).result
                /\ m_options = ParseRun(T, Before(m_argv, s)).options

\* A positional, then "--", then a token that names no declared option:
\* parse() returned success with only the positional assigned.
C21_Witness ==
    /\ Returned
    /\ T = SimpleOptions
    /\ m_argc = 4
    /\ scanned = {1, 2}
    /\ Argv(m_argv, 2) = Separator
    /\ Argv(m_argv, 3) = <<"-","-","v","e","r","b","=","y">>
    /\ IsOk(result)
    /\ m_options["name"] = Argv(m_argv, 1)
    /\ m_options["verbose"] = FALSE

---------------------------------------------------------------------------
(* C22 *)

\* C22: parse() is idempotent on one parser instance: a call made after an
\* earlier call returned, the result record untouched in between, returns the
\* same outcome (kind and context) and leaves the result record as the
\* earlier call left it.
C22_Idempotent ==
    Returned =>
        \A k \in 1..Len(previous) :
            /\ result = previous[k].result
            /\ m_options = previous[k].options

\* The second call returned InvalidValue as the first did, the flag and the
\* positional assigned before the failing option still set.
C22_Witness ==
    /\ Returned
    /\ Len(previous) = 1
    /\ T = SimpleOptions
    /\ result.error = "InvalidValue"
    /\ previous[1].result = result
    /\ m_options["verbose"] = TRUE
    /\ m_options["name"] = <<"a">>
    /\ scanned = {1, 2, 3}

---------------------------------------------------------------------------
(* C23 *)

\* The variadic field no longer holds the span it was constructed with
SliceWritten ==
    T.hasVarArgs /\ m_options[T.varargs] # T.defaults[T.varargs]

\* The variadic slice starts at index s because the scan stopped at a "--"
\* at index s - 1, or at a positional at index s beyond the declared slots
StoppedBefore(s) ==
    \/ /\ s >= 2
       /\ s - 1 \in scanned
       /\ Argv(m_argv, s - 1) = Separator
       /\ \A j \in scanned \cup consumed : j <= s - 1
    \/ /\ Overflows(s)
       /\ \A j \in scanned \cup consumed : j <= s

\* A written slice: parse() returned from the end-of-scan check, and the span
\* is tokens[s .. n - 1] with 1 <= s <= n - 1
WrittenSliceIsSuffix ==
    SliceWritten =>
        /\ Returned
        /\ result.error \notin ScanErrors
        /\ 1 <= m_options[T.varargs].data
        /\ m_options[T.varargs].data <= m_argc - 1
        /\ m_options[T.varargs].size = m_argc - m_options[T.varargs].data
        /\ VariadicSlice = TokensFrom(m_options[T.varargs].data)
        /\ Len(VariadicSlice) >= 1
        /\ StoppedBefore(m_options[T.varargs].data)

\* The variadic field changes only in the step after the loop, and only from
\* the span it was constructed with
WrittenOnce ==
    (T.hasVarArgs /\ m_options'[T.varargs] # m_options[T.varargs]) =>
        /\ pc = "finish"
        /\ pc' = "done"
        /\ m_options[T.varargs] = T.defaults[T.varargs]

\* C23: the variadic slice is written at most once per parse() and only when
\* the scan stopped at a separator or an overflow without a prior error;
\* whenever it is written it is the non-empty suffix tokens[s .. n - 1] of
\* the raw tokens with 1 <= s <= n - 1 (s >= 2 when a "--" triggered it), so
\* it extends to the last token.
C23_SliceIsSuffix ==
    /\ [][WrittenOnce]_vars
    /\ []WrittenSliceIsSuffix

\* With no positional slot declared the first token overflowed: the slice is
\* every token after the program name.
C23_Witness ==
    /\ Returned
    /\ SliceWritten
    /\ m_argc = 4
    /\ m_options[T.varargs].data = 1
    /\ Len(VariadicSlice) = 3
    /\ Overflows(1)

=============================================================================
